---- MODULE Spec2Model ----
(***************************************************************************)
(* GreenPath page script (src/file.js): the hero carousel and the trips    *)
(* calculator with its local-storage persistence, as a state machine.      *)
(*                                                                         *)
(* JavaScript numbers are records [k, v]: k = "fin" with the value v, or   *)
(* k = "inf" (+Infinity), "nan" (NaN), "null" (JSON null), "unset" (a DOM  *)
(* text or style never written).  Units: distances are tenths of a km,     *)
(* emissions and totals are hundredths of a kg, rates are hundredths of a  *)
(* kg per km, products distance * rate are thousandths of a kg, and the    *)
(* progress width is hundredths of a percent.  Binary floating point noise *)
(* below one thousandth is not modelled.  goToArg records the argument of  *)
(* the latest goTo call; sinceStart is the time, in IntervalTicks-ths of    *)
(* AUTOPLAY_INTERVAL, since the autoplay interval was set or last fired.   *)
(***************************************************************************)
EXTENDS Integers, Sequences, FiniteSets, TLC

VARIABLES page, current, goToArg, autoplayId, timers, sinceStart, hovering,
          activeEl,
          calcStatus, trips, totalEmissions, storage,
          statTrips, statTotal, tableRows, progressWidth,
          chart, liveCharts, totalResult, tripResult

carouselVars == <<current, goToArg, autoplayId, timers, sinceStart, hovering>>
calcVars == <<calcStatus, trips, totalEmissions, storage, statTrips, statTotal,
              tableRows, progressWidth, chart, liveCharts, totalResult, tripResult>>
vars == <<page, current, goToArg, autoplayId, timers, sinceStart, hovering,
          activeEl,
          calcStatus, trips, totalEmissions, storage,
          statTrips, statTotal, tableRows, progressWidth,
          chart, liveCharts, totalResult, tripResult>>

(* ------------------------------ bounds -------------------------------- *)

\* Largest number of slides a page has.
MaxSlides == 3

\* Largest length of the trip list.
MaxTrips == 2

\* goTo is applied to every n in -MaxArg..MaxArg by the GoToAny step.
MaxArg == 7

\* AUTOPLAY_INTERVAL, line 10, is this many steps of the clock.
IntervalTicks == 2

(* --------------------------- JS number values ------------------------- *)

Fin(n) == [k |-> "fin", v |-> n]
Inf == [k |-> "inf", v |-> 0]
NaN == [k |-> "nan", v |-> 0]
Null == [k |-> "null", v |-> 0]
Unset == [k |-> "unset", v |-> 0]

IsFin(x) == x.k = "fin"

\* JS remainder a % b on integers: truncating, the sign of the dividend; NaN for b = 0.
JsRem(a, b) ==
  IF a.k # "fin" \/ b = 0 THEN NaN
  ELSE IF a.v >= 0 THEN Fin(a.v % b) ELSE Fin(-((-a.v) % b))

\* JS a + b for a number a and an integer b.
JsPlus(a, b) == IF a.k = "fin" THEN Fin(a.v + b) ELSE a

\* JS a + b on non-negative numbers (the running total).
JsAdd(a, b) ==
  IF a.k = "nan" \/ b.k = "nan" THEN NaN
  ELSE IF a.k = "inf" \/ b.k = "inf" THEN Inf
  ELSE Fin(a.v + b.v)

\* JS a * r for a positive number a and a rate r >= 0: Infinity * 0 is NaN.
JsMul(a, r) ==
  IF a.k = "nan" THEN NaN
  ELSE IF a.k = "inf" THEN (IF r = 0 THEN NaN ELSE Inf)
  ELSE Fin(a.v * r)

(* ------------------------------ the page ------------------------------ *)

FullPage(c) ==
  [carousel |-> TRUE, track |-> TRUE, count |-> c, form |-> TRUE,
   progressBar |-> TRUE, chart |-> TRUE, table |-> TRUE,
   tips |-> TRUE, tipsTrack |-> TRUE]

\* The page markup the script runs on: the complete page with 1..MaxSlides
\* slides, and the complete page with one element missing.
Pages ==
  {FullPage(c) : c \in 1..MaxSlides}
  \cup {[FullPage(MaxSlides) EXCEPT !.carousel = FALSE],
        [FullPage(MaxSlides) EXCEPT !.track = FALSE],
        FullPage(0),
        [FullPage(MaxSlides) EXCEPT !.form = FALSE],
        [FullPage(MaxSlides) EXCEPT !.progressBar = FALSE],
        [FullPage(MaxSlides) EXCEPT !.chart = FALSE],
        [FullPage(MaxSlides) EXCEPT !.table = FALSE],
        [FullPage(MaxSlides) EXCEPT !.tips = FALSE, !.tipsTrack = FALSE],
        [FullPage(MaxSlides) EXCEPT !.tipsTrack = FALSE]}

(* ---------------------------- hero carousel --------------------------- *)

\* goTo, line 116: current = ((n % count) + count) % count.
GoToIndexWrong(n, c) == JsRem(n, c)
GoToIndexClamp(n, c) ==
  IF n.k # "fin" \/ c = 0 THEN NaN
  ELSE Fin(IF n.v < 0 THEN 0 ELSE IF n.v >= c THEN c - 1 ELSE n.v)
GoToIndex(n, c) ==
  LET r == JsRem(n, c)
  IN  IF r.k # "fin" THEN NaN ELSE JsRem(Fin(r.v + c), c)

\* goTo throws after assigning current: track is null (line 117), or
\* slides[current] is undefined (line 121) when there is no slide.
GoToThrows(p) == ~p.track \/ p.count = 0

\* stopAutoplay: clears the interval autoplayId names (0 stands for null).
StopTimers(id, ts) == IF id # 0 THEN ts \ {id} ELSE ts

\* setInterval returns a handle no live interval has.
NewHandle(ts) == CHOOSE h \in 1..(Cardinality(ts) + 1) : h \notin ts

\* startAutoplay: stopAutoplay, then autoplayId = setInterval(next, ...).
StartedTimersLeaky(id, ts) == ts \cup {NewHandle(ts)}
StartedTimers(id, ts) == StopTimers(id, ts) \cup {NewHandle(StopTimers(id, ts))}
StartedId(id, ts) == NewHandle(StopTimers(id, ts))

StopAutoplay ==
  /\ timers' = StopTimers(autoplayId, timers)
  /\ autoplayId' = 0
  /\ sinceStart' = 0

StartAutoplay ==
  /\ timers' = StartedTimers(autoplayId, timers)
  /\ autoplayId' = StartedId(autoplayId, timers)
  /\ sinceStart' = 0

\* A handler that calls goTo(n) and then startAutoplay(): the exception of
\* goTo ends the handler before startAutoplay.
GoToThenStart(n) ==
  /\ goToArg' = n
  /\ current' = GoToIndex(n, page.count)
  /\ IF GoToThrows(page)
       THEN UNCHANGED <<autoplayId, timers, sinceStart>>
       ELSE StartAutoplay

ClickNext ==
  /\ page.carousel
  /\ GoToThenStart(JsPlus(current, 1))
  /\ UNCHANGED <<page, hovering, activeEl, calcVars>>

ClickPrev ==
  /\ page.carousel
  /\ GoToThenStart(JsPlus(current, -1))
  /\ UNCHANGED <<page, hovering, activeEl, calcVars>>

ClickIndicator(i) ==
  /\ page.carousel
  /\ i \in 0..(page.count - 1)
  /\ GoToThenStart(Fin(i))
  /\ UNCHANGED <<page, hovering, activeEl, calcVars>>

\* keydown reaches the carousel from the focused element inside it.
KeyArrowLeft ==
  /\ page.carousel
  /\ activeEl = "carousel"
  /\ GoToThenStart(JsPlus(current, -1))
  /\ UNCHANGED <<page, hovering, activeEl, calcVars>>

KeyArrowRight ==
  /\ page.carousel
  /\ activeEl = "carousel"
  /\ GoToThenStart(JsPlus(current, 1))
  /\ UNCHANGED <<page, hovering, activeEl, calcVars>>

MouseEnter ==
  /\ page.carousel
  /\ ~hovering
  /\ hovering' = TRUE
  /\ StopAutoplay
  /\ UNCHANGED <<page, current, goToArg, activeEl, calcVars>>

MouseLeave ==
  /\ page.carousel
  /\ hovering
  /\ hovering' = FALSE
  /\ StartAutoplay
  /\ UNCHANGED <<page, current, goToArg, activeEl, calcVars>>

\* Focus enters the carousel from outside.
FocusIn ==
  /\ page.carousel
  /\ activeEl # "carousel"
  /\ activeEl' = "carousel"
  /\ StopAutoplay
  /\ UNCHANGED <<page, current, goToArg, hovering, calcVars>>

\* Focus moves between two elements of the carousel: focusout then focusin
\* bubble to the carousel, startAutoplay then stopAutoplay run.
FocusWithin ==
  /\ page.carousel
  /\ activeEl = "carousel"
  /\ timers' = StopTimers(StartedId(autoplayId, timers), StartedTimers(autoplayId, timers))
  /\ autoplayId' = 0
  /\ sinceStart' = 0
  /\ UNCHANGED <<page, current, goToArg, hovering, activeEl, calcVars>>

\* Focus leaves the carousel.
FocusOut ==
  /\ page.carousel
  /\ activeEl = "carousel"
  /\ activeEl' = "body"
  /\ StartAutoplay
  /\ UNCHANGED <<page, current, goToArg, hovering, calcVars>>

\* Time passes while an interval is live, up to the moment it fires.
TimePasses ==
  /\ page.carousel
  /\ timers # {}
  /\ sinceStart < IntervalTicks
  /\ sinceStart' = sinceStart + 1
  /\ UNCHANGED <<page, current, goToArg, autoplayId, timers, hovering, activeEl, calcVars>>

\* A live interval fires, AUTOPLAY_INTERVAL after it was set or last fired: next().
AutoplayTick ==
  /\ page.carousel
  /\ timers # {}
  /\ sinceStart = IntervalTicks
  /\ sinceStart' = 0
  /\ goToArg' = JsPlus(current, 1)
  /\ current' = GoToIndex(JsPlus(current, 1), page.count)
  /\ UNCHANGED <<page, autoplayId, timers, hovering, activeEl, calcVars>>

\* goTo applied to an arbitrary integer argument.
GoToAny(n) ==
  /\ page.carousel
  /\ goToArg' = Fin(n)
  /\ current' = GoToIndex(Fin(n), page.count)
  /\ UNCHANGED <<page, autoplayId, timers, sinceStart, hovering, activeEl, calcVars>>

(* ------------------------- trips calculator --------------------------- *)

\* new Date().toLocaleDateString() while the page is open, and the date of
\* the records an earlier visit stored.
Today == "today"
Earlier == "earlier"

\* EMISSION_RATES, line 11, in hundredths of a kg per km; addTrip line 276:
\* EMISSION_RATES[vehicle] || 0.
RateFlat(vehicle) == 21
Rate(vehicle) ==
  CASE vehicle = "car" -> 21
    [] vehicle = "motorbike" -> 10
    [] vehicle = "bus" -> 5
    [] vehicle = "bicycle" -> 0
    [] OTHER -> 0

\* x.toFixed(2) read back by Number(), line 277: x in thousandths, the result
\* in hundredths, the nearest one and the larger of two equally near;
\* "Infinity" and "NaN" read back as themselves.
ToFixed2(x) == IF x.k = "fin" THEN Fin((x.v + 5) \div 10) ELSE x

\* What the #vehicle and #distance fields hold at a submit.
VehicleInputs == {"", "car", "motorbike", "bus", "bicycle", "tram"}
DistanceInputs == {"abc", "0", "-5", "0.8", "100", "Infinity"}

\* Number(distanceStr), line 301, in tenths of a km.
NumberOf(s) ==
  CASE s = "0" -> Fin(0)
    [] s = "-5" -> Fin(-50)
    [] s = "0.8" -> Fin(8)
    [] s = "100" -> Fin(1000)
    [] s = "Infinity" -> Inf
    [] OTHER -> NaN

\* The submit handler's test, line 302:
\* !vehicle || Number.isNaN(distance) || distance <= 0.
IsRejectedLax(vehicle, distance) == vehicle = ""
IsRejected(vehicle, distance) ==
  \/ vehicle = ""
  \/ distance.k = "nan"
  \/ (distance.k = "fin" /\ distance.v <= 0)

\* The record addTrip builds, lines 276-278.
NewTrip(vehicle, distance) ==
  [date |-> Today, vehicle |-> vehicle, distance |-> distance,
   emissions |-> ToFixed2(JsMul(distance, Rate(vehicle)))]

\* JSON.stringify of a number: Infinity and NaN are written as null.
JsonNum(x) == IF x.k \in {"inf", "nan"} THEN Null ELSE x

\* JSON.stringify(trips), line 231, read as the array JSON.parse gives back.
Stringify(ts) ==
  [i \in 1..Len(ts) |->
     [date |-> ts[i].date, vehicle |-> ts[i].vehicle,
      distance |-> JsonNum(ts[i].distance), emissions |-> JsonNum(ts[i].emissions)]]

\* What localStorage holds under greenpath-trips-v1: nothing ("absent"),
\* text that is no JSON ("garbage"), JSON of a falsy value ("falsy"), JSON of
\* a truthy value that is no array ("nonarray"), or JSON of an array of
\* records ("array", with the records in v).
Stored(kind, ts) == [k |-> kind, v |-> ts]

\* Line 226: JSON.parse(localStorage.getItem(STORAGE_KEY)) || [], [] when
\* JSON.parse throws.
ParseTrips(st) == IF st.k = "array" THEN st.v ELSE <<>>

\* Line 228 throws (trips.reduce is not a function) on a value that is no array.
LoadThrows(st) == st.k = "nonarray"

\* Number(t.emissions || 0), line 228.
NumberOr0(e) == IF e.k \in {"null", "nan"} THEN Fin(0) ELSE e

\* trips.reduce((s, t) => s + Number(t.emissions || 0), 0), line 228.
RECURSIVE SumFrom(_, _, _)
SumFrom(ts, i, s) ==
  IF i > Len(ts) THEN s ELSE SumFrom(ts, i + 1, JsAdd(s, NumberOr0(ts[i].emissions)))
TotalOf(ts) == SumFrom(ts, 1, Fin(0))

\* trips.slice().reverse(), line 245: the table rows, most recent first.
Reverse(ts) == [i \in 1..Len(ts) |-> ts[Len(ts) + 1 - i]]

\* updateProgress, lines 254-258: Math.min((total / 50) * 100, 100) in
\* hundredths of a percent; the style keeps its value when there is no bar,
\* and when the text assigned is "NaN%", which is no CSS width.
Percent(total) ==
  IF total.k = "nan" THEN NaN
  ELSE IF total.k = "inf" \/ 2 * total.v > 10000 THEN Fin(10000)
  ELSE Fin(2 * total.v)
ProgressAfter(p, total, old) ==
  IF ~p.progressBar \/ Percent(total).k = "nan" THEN old ELSE Percent(total)

\* updateChart, lines 262-272: the previous instance is destroyed and a new
\* one made from the dates and Number(emissions) of the trips.
ChartOf(ts) ==
  [alive |-> TRUE,
   labels |-> [i \in 1..Len(ts) |-> ts[i].date],
   data |-> [i \in 1..Len(ts) |->
               IF ts[i].emissions.k = "null" THEN Fin(0) ELSE ts[i].emissions]]
NoChart == [alive |-> FALSE, labels |-> <<>>, data |-> <<>>]
ChartAfter(p, ts, old) == IF p.chart THEN ChartOf(ts) ELSE old
LiveChartsAfterLeaky(p, old, n) == IF p.chart THEN n + 1 ELSE n
LiveChartsAfter(p, old, n) ==
  IF p.chart THEN (IF old.alive THEN n - 1 ELSE n) + 1 ELSE n

\* renderTable, lines 240-250: nothing without the table (or its tbody).
TableAfter(p, ts, old) == IF p.table THEN Reverse(ts) ELSE old

\* persist, renderTable, updateProgress, updateChart on the new list and total.
PersistAndRender(ts, total) ==
  /\ storage' = Stored("array", Stringify(ts))
  /\ statTrips' = Fin(Len(ts))
  /\ statTotal' = total
  /\ tableRows' = TableAfter(page, ts, tableRows)
  /\ progressWidth' = ProgressAfter(page, total, progressWidth)
  /\ chart' = ChartAfter(page, ts, chart)
  /\ liveCharts' = LiveChartsAfter(page, chart, liveCharts)

\* The running total after addTrip, line 280.
TotalAfterAddForgot(total, emissions) == total
TotalAfterAdd(total, emissions) == JsAdd(total, emissions)

\* The running total after clearTrips, line 315.
TotalAfterClearKept(total) == total
TotalAfterClear(total) == Fin(0)

\* addTrip(vehicle, distance), lines 275-287.
AddTripReplacing(vehicle, distance) ==
  LET trip == NewTrip(vehicle, distance)
      total == TotalAfterAdd(totalEmissions, trip.emissions)
  IN  /\ trips' = <<trip>>
      /\ totalEmissions' = total
      /\ PersistAndRender(<<trip>>, total)
      /\ totalResult' = total
      /\ tripResult' = trip.emissions
AddTrip(vehicle, distance) ==
  LET trip == NewTrip(vehicle, distance)
      total == TotalAfterAdd(totalEmissions, trip.emissions)
  IN  /\ trips' = Append(trips, trip)
      /\ totalEmissions' = total
      /\ PersistAndRender(Append(trips, trip), total)
      /\ totalResult' = total
      /\ tripResult' = trip.emissions

\* The submit handler, lines 297-309, on input that passes the test.
SubmitAccepted(vehicle, distanceStr) ==
  /\ calcStatus = "ready"
  /\ page.form
  /\ ~IsRejected(vehicle, NumberOf(distanceStr))
  /\ Len(trips) < MaxTrips
  /\ AddTrip(vehicle, NumberOf(distanceStr))
  /\ UNCHANGED <<page, carouselVars, activeEl, calcStatus>>

\* The submit handler on input that fails the test: #distance is focused;
\* focus leaving the carousel for it runs the carousel's focusout handler.
SubmitRejected(vehicle, distanceStr) ==
  /\ calcStatus = "ready"
  /\ page.form
  /\ IsRejected(vehicle, NumberOf(distanceStr))
  /\ activeEl' = "distance"
  /\ IF page.carousel /\ activeEl = "carousel"
       THEN StartAutoplay
       ELSE UNCHANGED <<autoplayId, timers, sinceStart>>
  /\ UNCHANGED <<page, current, goToArg, hovering, calcVars>>

\* The submit handler, lines 297-309.
Submit(vehicle, distanceStr) ==
  \/ SubmitAccepted(vehicle, distanceStr)
  \/ SubmitRejected(vehicle, distanceStr)

\* Focus leaves the #distance field for an element outside the carousel.
FocusLeavesDistance ==
  /\ activeEl = "distance"
  /\ activeEl' = "body"
  /\ UNCHANGED <<page, carouselVars, calcVars>>

\* window.GreenPath.clearTrips, line 315.
ClearTrips ==
  /\ calcStatus = "ready"
  /\ trips' = <<>>
  /\ totalEmissions' = TotalAfterClear(totalEmissions)
  /\ PersistAndRender(<<>>, TotalAfterClear(totalEmissions))
  /\ UNCHANGED <<page, carouselVars, activeEl, calcStatus, totalResult, tripResult>>

\* window.GreenPath.getTrips, line 314: returns trips.slice(), a new array.
GetTrips ==
  /\ calcStatus = "ready"
  /\ UNCHANGED vars

(* ----------------------------- page load ------------------------------ *)

\* Records an earlier visit can have stored: a long car trip, and a trip
\* whose distance and emissions were not finite, stored as null.
StoredLong ==
  [date |-> Earlier, vehicle |-> "car", distance |-> Fin(3000), emissions |-> Fin(6300)]
StoredNull ==
  [date |-> Earlier, vehicle |-> "car", distance |-> Null, emissions |-> Null]

InitialStorages ==
  {Stored("absent", <<>>), Stored("garbage", <<>>), Stored("falsy", <<>>),
   Stored("nonarray", <<>>), Stored("array", <<>>),
   Stored("array", <<StoredLong>>), Stored("array", <<StoredNull>>)}

\* tipsCarousel, lines 179-199, throws at line 192 (track is null) when
\* #tipsCarousel holds no .tips-track.
TipsThrows(p) == p.tips /\ ~p.tipsTrack

\* heroCarousel's goTo(0), line 172, or tipsCarousel throws: the exception
\* leaves the whole script, and the calculator after it never runs.
ScriptAborted(p) == (p.carousel /\ GoToThrows(p)) \/ TipsThrows(p)

\* The state once the script has run on page p with st in storage.
Init ==
  \E p \in Pages, st \in InitialStorages :
    /\ page = p
    /\ storage = st
    /\ hovering = FALSE
    /\ activeEl = "body"
    /\ sinceStart = 0
    /\ goToArg = IF p.carousel THEN Fin(0) ELSE Unset
    /\ current = IF p.carousel THEN GoToIndex(Fin(0), p.count) ELSE Fin(0)
    /\ timers = IF p.carousel /\ ~GoToThrows(p) THEN StartedTimers(0, {}) ELSE {}
    /\ autoplayId = IF p.carousel /\ ~GoToThrows(p) THEN StartedId(0, {}) ELSE 0
    /\ calcStatus = IF ScriptAborted(p) THEN "notrun"
                    ELSE IF LoadThrows(st) THEN "threw" ELSE "ready"
    /\ totalResult = Unset
    /\ tripResult = Unset
    /\ IF ~ScriptAborted(p) /\ ~LoadThrows(st)
         THEN /\ trips = ParseTrips(st)
              /\ totalEmissions = TotalOf(ParseTrips(st))
              /\ statTrips = Fin(Len(ParseTrips(st)))
              /\ statTotal = TotalOf(ParseTrips(st))
              /\ tableRows = TableAfter(p, ParseTrips(st), <<>>)
              /\ progressWidth = ProgressAfter(p, TotalOf(ParseTrips(st)), Unset)
              /\ chart = ChartAfter(p, ParseTrips(st), NoChart)
              /\ liveCharts = LiveChartsAfter(p, NoChart, 0)
         ELSE /\ trips = <<>>
              /\ totalEmissions = Fin(0)
              /\ statTrips = Unset
              /\ statTotal = Unset
              /\ tableRows = <<>>
              /\ progressWidth = Unset
              /\ chart = NoChart
              /\ liveCharts = 0

(* --------------------------- specifications --------------------------- *)

\* The events that change the carousel or the focus.
NextCarousel ==
  \/ ClickNext
  \/ ClickPrev
  \/ \E i \in 0..(MaxSlides - 1) : ClickIndicator(i)
  \/ KeyArrowLeft
  \/ KeyArrowRight
  \/ MouseEnter
  \/ MouseLeave
  \/ FocusIn
  \/ FocusWithin
  \/ FocusOut
  \/ TimePasses
  \/ AutoplayTick
  \/ \E v \in VehicleInputs, d \in DistanceInputs : SubmitRejected(v, d)
  \/ FocusLeavesDistance

\* The events of the calculator.
NextCalculator ==
  \/ \E v \in VehicleInputs, d \in DistanceInputs : SubmitAccepted(v, d)
  \/ \E v \in VehicleInputs, d \in DistanceInputs : SubmitRejected(v, d)
  \/ FocusLeavesDistance
  \/ ClearTrips
  \/ GetTrips

NextGoTo == \E n \in (-MaxArg)..MaxArg : GoToAny(n)

Next == NextCarousel \/ NextCalculator

Spec == Init /\ [][Next]_vars

\* The carousel and the calculator share no variable but the focus, which no
\* calculator state depends on: each is also checked alone, with the other
\* left in a state the page load can give it.
SpecCarousel == Init /\ [][NextCarousel]_vars
SpecCalculator == Init /\ [][NextCalculator]_vars

\* goTo as a function of its argument.
SpecGoTo == Init /\ [][NextGoTo]_vars

\* Carousel and calculator events interleaved, the accepted submits drawn
\* from two vehicles and one distance.
PageVehicles == {"car", "bicycle"}
PageDistances == {"100"}
NextPage ==
  \/ NextCarousel
  \/ \E v \in PageVehicles, d \in PageDistances : SubmitAccepted(v, d)
  \/ ClearTrips
  \/ GetTrips
SpecPage == Init /\ [][NextPage]_vars

(* ------------------------------ claims -------------------------------- *)

\* C1: while the pointer hovers over the carousel or focus is inside it, no
\* autoplay interval is active.  (Stated as claimed; the code restarts the
\* interval on a click or an arrow key whatever the pointer and focus are.)
C1_SuspendedWhileHoverOrFocus ==
  (page.carousel /\ (hovering \/ activeEl = "carousel"))
    => (autoplayId = 0 /\ timers = {})

\* C2: the current index is always an integer in 0..count-1, for every slide
\* count.  (Stated as claimed; with no slide the code computes NaN.)
C2_IndexInRange ==
  page.carousel => (current.k = "fin" /\ current.v \in 0..(page.count - 1))

\* C3: after goTo(n), for any integer n and a carousel with slides, the
\* current index is n mod count, the mathematical (non-negative) remainder.
C3_GoToIsMod ==
  (page.carousel /\ page.count >= 1 /\ goToArg.k = "fin")
    => current = Fin(goToArg.v % page.count)

\* C3 witness: goTo(-7) on three slides has set the index to 2.
C3_Witness ==
  page.carousel /\ page.count = 3 /\ goToArg = Fin(-7) /\ current = Fin(2)

\* The sum of the emissions fields of a list, a field that holds null counting 0.
RECURSIVE EmissionsSum(_)
EmissionsSum(ts) ==
  IF ts = <<>> THEN Fin(0)
  ELSE LET e == ts[Len(ts)].emissions
       IN  JsAdd(EmissionsSum(SubSeq(ts, 1, Len(ts) - 1)),
                 IF e.k = "null" THEN Fin(0) ELSE e)

\* C4: in every state of the calculator the running total is the sum of the
\* emissions fields of the records in the trip list.
C4_TotalIsSum ==
  calcStatus = "ready" => totalEmissions = EmissionsSum(trips)

\* C4 witness: two trips added by submits (car 100 km, car 0.8 km), total 21.17 kg.
C4_Witness ==
  /\ calcStatus = "ready"
  /\ Len(trips) = 2
  /\ tripResult = Fin(17)
  /\ totalEmissions = Fin(2117)

\* C5: what is stored is the serialisation of the trip list, and loading it
\* gives a list equal to the list in memory and a total equal to the running
\* total.  (Stated as claimed; a non-finite number is stored as null.)
C5_LoadReproducesList ==
  (calcStatus = "ready" /\ storage.k = "array")
    => /\ storage.v = Stringify(trips)
       /\ ParseTrips(storage) = trips
       /\ TotalOf(ParseTrips(storage)) = totalEmissions

\* C6: clearTrips leaves the trip list empty, the running total 0 and the
\* stored list empty, and a load of what is stored gives the empty list.
C6_ClearEmptiesAll ==
  [][ClearTrips =>
       /\ trips' = <<>>
       /\ totalEmissions' = Fin(0)
       /\ storage' = Stored("array", <<>>)
       /\ ParseTrips(storage') = <<>>
       /\ TotalOf(ParseTrips(storage')) = Fin(0)]_vars

\* C6 witness: a trip was added and clearTrips has emptied list, total and store.
C6_Witness ==
  /\ calcStatus = "ready"
  /\ tripResult # Unset
  /\ trips = <<>>
  /\ totalEmissions = Fin(0)
  /\ storage = Stored("array", <<>>)

\* C7: a submit with no vehicle, or with a distance that is NaN or <= 0,
\* leaves the trip list, the running total and the stored list unchanged and
\* moves focus to the distance input.
C7_InvalidSubmitRejected ==
  [][\A v \in VehicleInputs, d \in DistanceInputs :
       ((v = "" \/ d \in {"abc", "0", "-5"}) /\ Submit(v, d))
         => (UNCHANGED <<trips, totalEmissions, storage>> /\ activeEl' = "distance")]_vars

\* C7 witness: with a trip in the list, a rejected submit has focused the
\* distance input.
C7_Witness ==
  /\ calcStatus = "ready"
  /\ tripResult # Unset
  /\ trips # <<>>
  /\ activeEl = "distance"

\* C8: every record a submit appends has a positive finite distance and
\* finite non-negative emissions.  (Stated as claimed; the handler lets
\* Infinity through.)
C8_AppendedDistanceFinite ==
  [][Len(trips') = Len(trips) + 1 =>
       LET r == trips'[Len(trips')]
       IN  /\ IsFin(r.distance) /\ r.distance.v > 0
           /\ IsFin(r.emissions) /\ r.emissions.v >= 0]_vars

\* The rates the claim names, in hundredths of a kg per km.
ClaimedRate(vehicle) ==
  IF vehicle = "car" THEN 21
  ELSE IF vehicle = "motorbike" THEN 10
  ELSE IF vehicle = "bus" THEN 5
  ELSE 0

ClaimedPercent(total) ==
  IF total.k = "fin" THEN (IF total.v >= 5000 THEN Fin(10000) ELSE Fin(2 * total.v))
  ELSE IF total.k = "inf" THEN Fin(10000)
  ELSE NaN

\* C10: the progress bar width is min(total / 50 * 100, 100) percent of the
\* running total, at most 100%, and 0% once the list is cleared.  (Stated as
\* claimed; with a NaN total the bar keeps its previous width.)
C10_ProgressIsClampedPercent ==
  (calcStatus = "ready" /\ page.progressBar)
    => /\ progressWidth = ClaimedPercent(totalEmissions)
       /\ progressWidth.k = "fin"
       /\ progressWidth.v \in 0..10000
       /\ trips = <<>> => progressWidth = Fin(0)

\* C11: when the storage key is absent or holds what is no trip list, the
\* load gives the empty list with total 0 and the calculator is initialised.
\* (Stated as claimed; JSON of a truthy value that is no array makes line 228
\* throw.)
C11_UnreadableStorageLoadsEmpty ==
  (~ScriptAborted(page) /\ storage.k \in {"absent", "garbage", "falsy", "nonarray"})
    => (calcStatus = "ready" /\ trips = <<>> /\ totalEmissions = Fin(0))

\* C12: the trip list changes only by addTrip, which keeps the records it
\* holds, in order, and adds one record at the end, and by clearTrips, which
\* empties it; no other event (a rejected submit, getTrips, a carousel event)
\* changes it.
C12_AppendOnlyExceptClear ==
  [][/\ (\E v \in VehicleInputs, d \in DistanceInputs : SubmitAccepted(v, d))
          => /\ Len(trips') = Len(trips) + 1
             /\ SubSeq(trips', 1, Len(trips)) = trips
     /\ ClearTrips => trips' = <<>>
     /\ (trips' # trips)
          => \/ \E v \in VehicleInputs, d \in DistanceInputs : SubmitAccepted(v, d)
             \/ ClearTrips]_vars

\* C12 witness: a record was appended after the record loaded from storage,
\* and the carousel has moved since.
C12_Witness ==
  /\ Len(trips) = 2
  /\ trips[1] = StoredLong
  /\ trips[2].date = Today
  /\ current = Fin(1)

\* C13: whenever the pointer is not over the carousel and focus is not
\* inside it, the autoplay interval is live.  (Stated as claimed; when goTo(0)
\* throws at line 172, startAutoplay at line 173 never runs.)
C13_AutoplayActiveWhenIdle ==
  (page.carousel /\ ~hovering /\ activeEl # "carousel")
    => (autoplayId # 0 /\ autoplayId \in timers)

\* The click, indicator and arrow-key handlers, lines 151-165.
ManualInteraction ==
  \/ ClickNext
  \/ ClickPrev
  \/ \E i \in 0..(MaxSlides - 1) : ClickIndicator(i)
  \/ KeyArrowLeft
  \/ KeyArrowRight

\* C14: every manual interaction makes one slide transition and restarts the
\* autoplay interval, which then has a full interval to run before it fires.
\* (Stated as claimed; when goTo throws, the handler ends before
\* startAutoplay.)
C14_ManualInteractionResetsAutoplay ==
  [][ManualInteraction =>
       /\ page.count >= 1
       /\ IsFin(current)
       /\ (ClickNext \/ KeyArrowRight) => current' = Fin((current.v + 1) % page.count)
       /\ (ClickPrev \/ KeyArrowLeft) => current' = Fin((current.v - 1) % page.count)
       /\ \A i \in 0..(MaxSlides - 1) : ClickIndicator(i) => current' = Fin(i)
       /\ autoplayId' # 0
       /\ timers' = {autoplayId'}
       /\ sinceStart' = 0]_vars

\* The two claims above on the pages where goTo does not throw.
IdleAutoplayOnSoundPages ==
  (page.carousel /\ ~GoToThrows(page)) => C13_AutoplayActiveWhenIdle
ManualResetOnSoundPages ==
  [][(ManualInteraction /\ ~GoToThrows(page)) =>
       (autoplayId' # 0 /\ timers' = {autoplayId'} /\ sinceStart' = 0)]_vars

\* C15: whatever page elements are missing, the script runs to its end
\* without an exception, a missing carousel root leaves the carousel idle,
\* and the calculator is initialised.  (Stated as claimed; a carousel without
\* track or slides makes goTo(0) throw out of the script.)
C15_MissingElementsNotFatal ==
  /\ ~ScriptAborted(page)
  /\ calcStatus # "notrun"
  /\ ~page.carousel => (autoplayId = 0 /\ timers = {})

\* C16: at most one chart instance is alive at any time, and the live
\* instance's labels and values are the dates and the emissions of the trip
\* list, in insertion order (an emissions field that holds null plots as 0,
\* as it counts in the running total).
C16_OneChartOfTrips ==
  /\ liveCharts <= 1
  /\ (calcStatus = "ready" /\ page.chart)
       => /\ chart.alive
          /\ liveCharts = 1
          /\ Len(chart.labels) = Len(trips)
          /\ Len(chart.data) = Len(trips)
          /\ \A i \in 1..Len(trips) :
               /\ chart.labels[i] = trips[i].date
               /\ chart.data[i] = IF trips[i].emissions.k = "null"
                                    THEN Fin(0) ELSE trips[i].emissions
  /\ (calcStatus = "ready" /\ ~page.chart) => (~chart.alive /\ liveCharts = 0)

\* C16 witness: the chart has been rebuilt twice, after car 100 km and then
\* car 0.8 km, on a page with a chart canvas.
C16_Witness ==
  /\ page.chart
  /\ liveCharts = 1
  /\ chart.labels = <<Today, Today>>
  /\ chart.data = <<Fin(2100), Fin(17)>>

\* C17: at most one autoplay interval exists at any time: autoplayId is null
\* and no interval is live, or autoplayId is the handle of the only live one.
C17_OneIntervalOwned ==
  timers = IF autoplayId = 0 THEN {} ELSE {autoplayId}

\* C17 witness: autoplay was restarted by a click while the pointer was over
\* the carousel, after the mouseenter had stopped it.
C17_Witness ==
  /\ page.carousel /\ ~GoToThrows(page)
  /\ hovering
  /\ goToArg = Fin(-1)
  /\ autoplayId # 0
  /\ timers = {autoplayId}

\* C18: on a carousel with slides, from every index i in 0..count-1, next then
\* prev and prev then next give i again, and count nexts give i again.
RECURSIVE NextTimes(_, _, _)
NextTimes(k, i, c) ==
  IF k = 0 THEN i ELSE NextTimes(k - 1, GoToIndex(JsPlus(i, 1), c), c)

C18_NextPrevInverse ==
  (page.carousel /\ page.count >= 1)
    => \A i \in 0..(page.count - 1) :
         /\ GoToIndex(JsPlus(GoToIndex(JsPlus(Fin(i), 1), page.count), -1), page.count) = Fin(i)
         /\ GoToIndex(JsPlus(GoToIndex(JsPlus(Fin(i), -1), page.count), 1), page.count) = Fin(i)
         /\ NextTimes(page.count, Fin(i), page.count) = Fin(i)

\* C18 witness: prev from index 0 of three slides has wrapped to index 2.
C18_Witness ==
  page.carousel /\ page.track /\ page.count = 3 /\ goToArg = Fin(-1) /\ current = Fin(2)

\* C19: the statTotal text and the totalResult text show the running total
\* and statTrips shows the number of trips, after every addTrip and
\* clearTrips.  (Stated as claimed; clearTrips does not write totalResult.)
C19_DisplaysShowCurrentTotal ==
  calcStatus = "ready"
    => /\ statTotal = totalEmissions
       /\ statTrips = Fin(Len(trips))
       /\ (totalResult # Unset) => totalResult = totalEmissions

====
